---- MODULE Spec2Model ----
(***************************************************************************)
(* Model of src/dailyReourceInventory.py: the daily AWS resource report.   *)
(* lambda_handler is a single thread of control; every call to an external *)
(* service (AWS Config, CloudTrail, EC2, Lambda, S3, SES, the file system)  *)
(* either returns or raises, and an exception that nothing catches leaves   *)
(* lambda_handler.                                                          *)
(*                                                                          *)
(* Time is counted in ticks, DayLen ticks to the UTC day; a timestamp is a  *)
(* tick, its date() is the day it falls in.  A Python dict is a function    *)
(* whose DOMAIN is its keys.                                                *)
(***************************************************************************)
EXTENDS Integers, Sequences, FiniteSets, TLC

VARIABLES
    profile,     \* which catalog content the environment draws results from
    now,         \* datetime.utcnow() at invocation
    today, yesterday, start_time, end_time,
    pc,          \* position of lambda_handler
    returned,    \* history: what the paginator has yielded so far, in order
    items,       \* the list `items`
    temp,        \* the temporary file: "none", "exists", "removed"
    ws,          \* the worksheet: rows of cells and fills
    uploaded,    \* number of completed s3.upload_file calls
    summary,     \* df['Change Type'].value_counts().to_dict()
    emailsSent,  \* number of completed ses.send_email calls
    started,     \* history: stages begun, in order
    completed,   \* history: stages completed, in order
    error,       \* the exception that left lambda_handler, "none" if none
    result       \* the value lambda_handler returned, "none" if none

vars == <<profile, now, today, yesterday, start_time, end_time, pc, returned,
          items, temp, ws, uploaded, summary, emailsSent, started, completed,
          error, result>>

----------------------------------------------------------------------------
(* Bounds *)

\* ticks in one UTC day
DayLen == 2
\* results the two queries return in one run, together
MaxResults == 2

----------------------------------------------------------------------------
(* Dates: lines 70-73 *)

\* datetime.date(): the UTC day a tick falls in
Date(t) == t \div DayLen

\* datetime(d.year, d.month, d.day): midnight that starts day d
Midnight(d) == d * DayLen

\* strftime('%Y-%m-%d %H:%M:%S'): the date and the time of day
Strftime(t) == [date |-> Date(t), time |-> t % DayLen]

\* invocation instants: any tick of the third day
Instants == (2 * DayLen) .. (3 * DayLen - 1)

\* timestamps the catalog can hold: any tick up to the end of today
Timestamps == 0 .. (3 * DayLen - 1)

----------------------------------------------------------------------------
(* dict.get *)

Get(d, k, default) == IF k \in DOMAIN d THEN d[k] ELSE default

Has(d, k) == k \in DOMAIN d

----------------------------------------------------------------------------
(* get_user_from_cloudtrail: lines 22-44 *)

\* what cloudtrail.lookup_events does: raises, or returns its Events
CloudTrailResponses ==
    { [ok |-> FALSE],
      [ok |-> TRUE, Events |-> <<>>],
      [ok |-> TRUE, Events |-> << [Username |-> "alice"] >>],
      [ok |-> TRUE, Events |-> << [EventName |-> "PutObject"] >>],
      [ok |-> TRUE, Events |-> << [Username |-> "bob"], [Username |-> "alice"] >>] }

\* the lookup without its fallback: a failed lookup returns nothing
get_user_from_cloudtrail_NoFallback(response) ==
    IF ~response.ok
    THEN "None"
    ELSE IF response.Events # <<>>
         THEN Get(response.Events[1], "Username", "Unknown")
         ELSE "Unknown"

get_user_from_cloudtrail(response) ==
    IF ~response.ok
    THEN "Unknown"
    ELSE IF response.Events # <<>>
         THEN Get(response.Events[1], "Username", "Unknown")
         ELSE "Unknown"

----------------------------------------------------------------------------
(* get_resource_details: lines 46-66 *)

EC2Instance == "AWS::EC2::Instance"
S3Bucket == "AWS::S3::Bucket"
LambdaFunction == "AWS::Lambda::Function"
IAMRole == "AWS::IAM::Role"

EmptyDict == <<>>

\* what the per-type describe call does: raises, or returns its body
DetailResponses(resource_type) ==
    IF resource_type = EC2Instance
    THEN { [ok |-> FALSE],
           [ok |-> TRUE, Reservations |-> <<>>],
           [ok |-> TRUE, Reservations |-> << [Instances |-> <<>>] >>],
           [ok |-> TRUE, Reservations |-> << [Instances |->
                << [InstanceType |-> "t3.micro", State |-> [Name |-> "running"]] >>] >>],
           [ok |-> TRUE, Reservations |-> << [Instances |->
                << [InstanceType |-> "t3.micro"] >>] >>] }
    ELSE IF resource_type = LambdaFunction
    THEN { [ok |-> FALSE],
           [ok |-> TRUE, Configuration |-> [Runtime |-> "python3.12", State |-> "Pending"]],
           [ok |-> TRUE, Configuration |-> [Runtime |-> "python3.12"]] }
    ELSE { [ok |-> TRUE] }

get_resource_details(resource_type, response) ==
    IF resource_type = EC2Instance
    THEN IF ~response.ok
         THEN [State |-> "Unknown"]
         ELSE IF response.Reservations # <<>>
              THEN IF response.Reservations[1].Instances = <<>>
                   THEN [State |-> "Unknown"]
                   ELSE LET instance == response.Reservations[1].Instances[1]
                        IN  [InstanceType |-> Get(instance, "InstanceType", ""),
                             State |-> Get(Get(instance, "State", EmptyDict), "Name", "")]
              ELSE EmptyDict
    ELSE IF resource_type = S3Bucket
    THEN [State |-> "Active"]
    ELSE IF resource_type = LambdaFunction
    THEN IF ~response.ok
         THEN [State |-> "Unknown"]
         ELSE [Runtime |-> Get(response.Configuration, "Runtime", ""),
               State |-> Get(response.Configuration, "State", "")]
    ELSE EmptyDict

----------------------------------------------------------------------------
(* What the catalog may hold *)

None == "None"

\* an optional field of a result: <<>> when the key is absent, <<v>> otherwise
Opt(k, o) == IF o = <<>> THEN EmptyDict ELSE k :> o[1]

Optional(S) == {<<>>} \cup {<<v>> : v \in S}

\* a result that is not JSON
Malformed == [wellFormed |-> FALSE]

WellFormed(data) == [wellFormed |-> TRUE, doc |-> data]

\* The catalog is drawn from one of three profiles:
\*   "pipeline": several results of two resources, of a type that needs no lookup;
\*   "lookups":  several results of the types that have a detail lookup;
\*   "record":   one result, of any shape.

ResourceIds(prof) ==
    IF prof = "pipeline" THEN {"res-a", "res-b"} ELSE {"res-a"}

ResourceTypes(prof) ==
    IF prof = "pipeline" THEN {S3Bucket}
    ELSE IF prof = "lookups" THEN {EC2Instance, LambdaFunction}
    ELSE {EC2Instance, S3Bucket, LambdaFunction, IAMRole}

TagSets(prof) ==
    IF prof = "record"
    THEN Optional({ << <<"env", "prod">> >> }) \cup {<< <<>> >>}
    ELSE {<<>>}

\* the configuration payload: absent, JSON, or not JSON
Configurations(prof) ==
    IF prof = "pipeline" THEN {<<>>, << [wellFormed |-> FALSE] >>}
    ELSE IF prof = "lookups" THEN {<<>>}
    ELSE Optional({[wellFormed |-> TRUE], [wellFormed |-> FALSE]})

\* capture times: in the pipeline profile, the last tick before the window
\* and its first tick
CaptureTimes(prof, st) ==
    IF prof = "pipeline" THEN {st - 1, st}
    ELSE IF prof = "lookups" THEN {st}
    ELSE Timestamps

\* creation times: in the pipeline profile, the last tick of the window
CreationTimes(prof, et) ==
    IF prof = "pipeline" THEN {et - 1}
    ELSE IF prof = "lookups" THEN {}
    ELSE Timestamps

\* deletion times, before the query filters them
DeletionTimes(prof, st) ==
    IF prof = "lookups" THEN {st} ELSE Timestamps

TrailResponses(prof) ==
    IF prof = "pipeline"
    THEN {[ok |-> FALSE], [ok |-> TRUE, Events |-> << [Username |-> "alice"] >>]}
    ELSE IF prof = "lookups"
    THEN {[ok |-> FALSE], [ok |-> TRUE, Events |-> <<>>],
          [ok |-> TRUE, Events |-> << [Username |-> "alice"] >>]}
    ELSE CloudTrailResponses

\* results of current_query (lines 80-85)
SnapshotResults(prof, st, et) ==
    {Malformed} \cup
    { WellFormed([resourceId |-> id, resourceType |-> ty, awsRegion |-> "us-east-1"]
                 @@ Opt("tags", tg)
                 @@ Opt("configurationItemCaptureTime", cap)
                 @@ Opt("resourceCreationTime", cre)
                 @@ Opt("configuration", cfg)) :
        id \in ResourceIds(prof), ty \in ResourceTypes(prof), tg \in TagSets(prof),
        cap \in Optional(CaptureTimes(prof, st)),
        cre \in Optional(CreationTimes(prof, et)),
        cfg \in Configurations(prof) }

\* deletion events the catalog holds, whatever their time
DeletionEvents(prof, st) ==
    {Malformed} \cup
    { WellFormed([resourceId |-> id, resourceType |-> ty, awsRegion |-> "us-east-1",
                  resourceDeletionTime |-> del]
                 @@ Opt("tags", tg)) :
        id \in ResourceIds(prof), ty \in ResourceTypes(prof), tg \in TagSets(prof),
        del \in DeletionTimes(prof, st) }

\* deleted_query (lines 135-140):
\* resourceDeletionTime BETWEEN start_time AND end_time, both ends included
DeletedQueryMatches(r, st, et) ==
    r.wellFormed => (st <= r.doc.resourceDeletionTime /\ r.doc.resourceDeletionTime <= et)

DeletedResults(prof, st, et) ==
    {r \in DeletionEvents(prof, st) : DeletedQueryMatches(r, st, et)}

----------------------------------------------------------------------------
(* The records: lines 87-163 *)

Columns ==
    << "IAM User", "Resource ID", "Resource Type", "Current State", "Region",
       "Creation Date", "Last Modified", "Change Type", "Tags", "Additional Info" >>

Item(user, id, ty, state, region, created, modified, change, tags, info) ==
    ("IAM User" :> user) @@ ("Resource ID" :> id) @@ ("Resource Type" :> ty) @@
    ("Current State" :> state) @@ ("Region" :> region) @@ ("Creation Date" :> created) @@
    ("Last Modified" :> modified) @@ ("Change Type" :> change) @@ ("Tags" :> tags) @@
    ("Additional Info" :> info)

\* lines 102-103: the tags joined, or 'No tags'
TagString(data) ==
    LET tags == Get(data, "tags", <<>>)
    IN  IF tags # <<>> THEN [joined |-> tags] ELSE "No tags"

\* json.dumps of a dict
JsonDumps(d) == [json |-> d]

\* the classification with the two tests in the other order
ChangeType_CaptureFirst(creation_time, capture_time, yday) ==
    IF Date(capture_time) = yday
    THEN "Modified"
    ELSE IF creation_time # <<>> /\ Date(creation_time[1]) = yday
         THEN "Created"
         ELSE "Existing"

\* lines 112-116; creation_time is <<>> for None
ChangeType(creation_time, capture_time, yday) ==
    IF creation_time # <<>> /\ Date(creation_time[1]) = yday
    THEN "Created"
    ELSE IF Date(capture_time) = yday
         THEN "Modified"
         ELSE "Existing"

Raised(e) == [raised |-> TRUE, error |-> e]

Emitted(item) == [raised |-> FALSE, item |-> item]

\* lines 89-132: one result of the snapshot query
SnapshotRecord(r, yday, userResponse, detailResponse) ==
    IF ~r.wellFormed
    THEN Raised("JSONDecodeError")
    ELSE LET data == r.doc
         IN  IF Has(data, "configuration") /\ ~data.configuration.wellFormed
             THEN Raised("JSONDecodeError")
             ELSE IF ~Has(data, "configurationItemCaptureTime")
             THEN Raised("AttributeError")
             ELSE LET resource_details ==
                          get_resource_details(Get(data, "resourceType", None), detailResponse)
                      capture_time == data.configurationItemCaptureTime
                      creation_time ==
                          IF Has(data, "resourceCreationTime")
                          THEN <<data.resourceCreationTime>> ELSE <<>>
                  IN  Emitted(Item(
                          get_user_from_cloudtrail(userResponse),
                          Get(data, "resourceId", None),
                          Get(data, "resourceType", None),
                          Get(resource_details, "State", "Active"),
                          Get(data, "awsRegion", None),
                          IF creation_time # <<>>
                              THEN Strftime(creation_time[1]) ELSE "Unknown",
                          Strftime(capture_time),
                          ChangeType(creation_time, capture_time, yday),
                          TagString(data),
                          IF DOMAIN resource_details # {}
                              THEN JsonDumps(resource_details) ELSE ""))

\* lines 144-163: one result of the deletion query
DeletionRecord(r, userResponse) ==
    IF ~r.wellFormed
    THEN Raised("JSONDecodeError")
    ELSE LET data == r.doc
         IN  IF ~Has(data, "resourceDeletionTime")
             THEN Raised("AttributeError")
             ELSE Emitted(Item(
                      get_user_from_cloudtrail(userResponse),
                      Get(data, "resourceId", None),
                      Get(data, "resourceType", None),
                      "Deleted",
                      Get(data, "awsRegion", None),
                      "Unknown",
                      Strftime(data.resourceDeletionTime),
                      "Deleted",
                      TagString(data),
                      ""))

\* the sentinel classified as an unchanged resource
Sentinel_Existing ==
    [k \in {Columns[j] : j \in DOMAIN Columns} |->
        IF k = "Change Type" THEN "Existing"
        ELSE IF k = "Resource ID" THEN "No changes detected" ELSE "N/A"]

\* lines 167-178
Sentinel ==
    Item("N/A", "No changes detected", "N/A", "N/A", "N/A", "N/A", "N/A", "N/A",
         "N/A", "N/A")

----------------------------------------------------------------------------
(* The worksheet: lines 186-225 *)

\* column H holds 'Change Type' (line 213)
ChangeTypeColumn == 8

\* lines 215-222
Fill(change_type) ==
    IF change_type = "Created" THEN "green"
    ELSE IF change_type = "Modified" THEN "yellow"
    ELSE IF change_type = "Deleted" THEN "red"
    ELSE "blue"

\* the fill chosen by column D, 'Current State'
FillKey_ColumnD(cells) == cells[4]

\* the cell of a data row the fill is chosen by (line 213)
FillKey(cells) == cells[ChangeTypeColumn]

\* lines 193-194: dataframe_to_rows(df, index=False, header=True), appended
Rows(its) ==
    << Columns >> \o [i \in 1 .. Len(its) |-> [j \in 1 .. Len(Columns) |-> its[i][Columns[j]]]]

\* lines 207-225: the header's fill, then each data row's
Worksheet(its) ==
    LET rows == Rows(its)
    IN  [n \in 1 .. Len(rows) |->
            [cells |-> rows[n],
             fills |-> [j \in 1 .. Len(rows[n]) |->
                           IF n = 1 THEN "header" ELSE Fill(FillKey(rows[n]))]]]

\* line 247: df['Change Type'].value_counts().to_dict()
ValueCounts(its) ==
    [c \in {its[i]["Change Type"] : i \in 1 .. Len(its)} |->
        Cardinality({i \in 1 .. Len(its) : its[i]["Change Type"] = c})]

----------------------------------------------------------------------------
(* lambda_handler: lines 68-297 *)

Stages == << "snapshot", "deleted", "reconcile", "render", "publish", "notify" >>

\* results one run draws from the catalog
Limit(prof) == IF prof = "record" THEN 1 ELSE MaxResults

InitWith(prof) ==
    /\ profile = prof
    /\ now \in Instants
    /\ today = 0 /\ yesterday = 0 /\ start_time = 0 /\ end_time = 0
    /\ pc = "start"
    /\ returned = <<>>
    /\ items = <<>>
    /\ temp = "none"
    /\ ws = <<>>
    /\ uploaded = 0
    /\ summary = EmptyDict
    /\ emailsSent = 0
    /\ started = <<>>
    /\ completed = <<>>
    /\ error = "none"
    /\ result = "none"

Init == InitWith("pipeline")

InitLookups == InitWith("lookups")

InitRecord == InitWith("record")

\* an exception that is recorded and does not end the run
Raise_Swallowed(e) ==
    /\ pc' = pc
    /\ error' = e

\* an exception leaves lambda_handler
Raise(e) ==
    /\ pc' = "failed"
    /\ error' = e

\* the stage in progress completes and the next one begins
NextStage(next) ==
    /\ completed' = Append(completed, started[Len(started)])
    /\ started' = Append(started, next)

\* lines 70-73, and the first query begins (line 87)
Start ==
    /\ pc = "start"
    /\ today' = Date(now)
    /\ yesterday' = Date(now) - 1
    /\ start_time' = Midnight(Date(now) - 1)
    /\ end_time' = Midnight(Date(now))
    /\ pc' = "snapshot"
    /\ started' = << "snapshot" >>
    /\ UNCHANGED <<profile, now, returned, items, temp, ws, uploaded, summary,
                   emailsSent, completed, error, result>>

\* what one result adds to the history: the result, and what CloudTrail and the
\* detail service answer for it
Yielded(source, r, userResponse, detailResponse) ==
    [source |-> source, result |-> r, trail |-> userResponse, detail |-> detailResponse]

\* the collection that keeps one record for each resource id
Collect_Dedup(out) ==
    IF out.raised
    THEN /\ Raise(out.error)
         /\ UNCHANGED items
    ELSE /\ items' =
               IF \E i \in DOMAIN items : items[i]["Resource ID"] = out.item["Resource ID"]
               THEN items ELSE Append(items, out.item)
         /\ UNCHANGED <<pc, error>>

\* `items` after one more result, or the exception
Collect(out) ==
    IF out.raised
    THEN /\ Raise(out.error)
         /\ UNCHANGED items
    ELSE /\ items' = Append(items, out.item)
         /\ UNCHANGED <<pc, error>>

\* lines 87-132: the paginator yields one more result
SnapshotResult ==
    /\ pc = "snapshot"
    /\ Len(returned) < Limit(profile)
    /\ \E r \in SnapshotResults(profile, start_time, end_time) :
       \E u \in TrailResponses(profile) :
       \E d \in DetailResponses(IF r.wellFormed THEN r.doc.resourceType ELSE None) :
          /\ returned' = Append(returned, Yielded("snapshot", r, u, d))
          /\ Collect(SnapshotRecord(r, yesterday, u, d))
    /\ UNCHANGED <<profile, now, today, yesterday, start_time, end_time, temp, ws,
                   uploaded, summary, emailsSent, started, completed, result>>

\* line 87: the query raises
SnapshotQueryFails ==
    /\ pc = "snapshot"
    /\ Raise("ClientError")
    /\ UNCHANGED <<profile, now, today, yesterday, start_time, end_time, returned,
                   items, temp, ws, uploaded, summary, emailsSent, started,
                   completed, result>>

\* line 87 ends, line 142 begins
SnapshotEnd ==
    /\ pc = "snapshot"
    /\ pc' = "deleted"
    /\ NextStage("deleted")
    /\ UNCHANGED <<profile, now, today, yesterday, start_time, end_time, returned,
                   items, temp, ws, uploaded, summary, emailsSent, error, result>>

\* lines 142-163: the paginator yields one more result
DeletedResult ==
    /\ pc = "deleted"
    /\ Len(returned) < Limit(profile)
    /\ \E r \in DeletedResults(profile, start_time, end_time) :
       \E u \in TrailResponses(profile) :
          /\ returned' = Append(returned, Yielded("deleted", r, u, [ok |-> TRUE]))
          /\ Collect(DeletionRecord(r, u))
    /\ UNCHANGED <<profile, now, today, yesterday, start_time, end_time, temp, ws,
                   uploaded, summary, emailsSent, started, completed, result>>

\* line 142: the query raises
DeletedQueryFails ==
    /\ pc = "deleted"
    /\ Raise("ClientError")
    /\ UNCHANGED <<profile, now, today, yesterday, start_time, end_time, returned,
                   items, temp, ws, uploaded, summary, emailsSent, started,
                   completed, result>>

\* line 142 ends
DeletedEnd ==
    /\ pc = "deleted"
    /\ pc' = "reconcile"
    /\ NextStage("reconcile")
    /\ UNCHANGED <<profile, now, today, yesterday, start_time, end_time, returned,
                   items, temp, ws, uploaded, summary, emailsSent, error, result>>

\* lines 166-180
Reconciled(its) == IF Len(its) = 0 THEN << Sentinel >> ELSE its

Reconcile ==
    /\ pc = "reconcile"
    /\ items' = Reconciled(items)
    /\ pc' = "tempfile"
    /\ NextStage("render")
    /\ UNCHANGED <<profile, now, today, yesterday, start_time, end_time, returned,
                   temp, ws, uploaded, summary, emailsSent, error, result>>

\* lines 183-184: NamedTemporaryFile(suffix='.xlsx', delete=False)
CreateTempFile ==
    /\ pc = "tempfile"
    /\ temp' = "exists"
    /\ pc' = "render"
    /\ UNCHANGED <<profile, now, today, yesterday, start_time, end_time, returned,
                   items, ws, uploaded, summary, emailsSent, started, completed,
                   error, result>>

CreateTempFileFails ==
    /\ pc = "tempfile"
    /\ Raise("OSError")
    /\ UNCHANGED <<profile, now, today, yesterday, start_time, end_time, returned,
                   items, temp, ws, uploaded, summary, emailsSent, started,
                   completed, result>>

\* lines 186-238: the workbook, in memory
Render ==
    /\ pc = "render"
    /\ ws' = Worksheet(items)
    /\ pc' = "save"
    /\ UNCHANGED <<profile, now, today, yesterday, start_time, end_time, returned,
                   items, temp, uploaded, summary, emailsSent, started, completed,
                   error, result>>

\* line 240: wb.save(temp_path)
Save ==
    /\ pc = "save"
    /\ pc' = "upload"
    /\ NextStage("publish")
    /\ UNCHANGED <<profile, now, today, yesterday, start_time, end_time, returned,
                   items, temp, ws, uploaded, summary, emailsSent, error, result>>

SaveFails ==
    /\ pc = "save"
    /\ Raise("OSError")
    /\ UNCHANGED <<profile, now, today, yesterday, start_time, end_time, returned,
                   items, temp, ws, uploaded, summary, emailsSent, started,
                   completed, result>>

\* lines 243-244: s3.upload_file
Upload ==
    /\ pc = "upload"
    /\ uploaded' = uploaded + 1
    /\ pc' = "presign"
    /\ UNCHANGED <<profile, now, today, yesterday, start_time, end_time, returned,
                   items, temp, ws, summary, emailsSent, started, completed, error,
                   result>>

UploadFails ==
    /\ pc = "upload"
    /\ Raise("S3UploadFailedError")
    /\ UNCHANGED <<profile, now, today, yesterday, start_time, end_time, returned,
                   items, temp, ws, uploaded, summary, emailsSent, started,
                   completed, result>>

\* lines 247-255: the summary, then s3.generate_presigned_url
Presign ==
    /\ pc = "presign"
    /\ summary' = ValueCounts(items)
    /\ pc' = "email"
    /\ NextStage("notify")
    /\ UNCHANGED <<profile, now, today, yesterday, start_time, end_time, returned,
                   items, temp, ws, uploaded, emailsSent, error, result>>

PresignFails ==
    /\ pc = "presign"
    /\ summary' = ValueCounts(items)
    /\ Raise("ClientError")
    /\ UNCHANGED <<profile, now, today, yesterday, start_time, end_time, returned,
                   items, temp, ws, uploaded, emailsSent, started, completed,
                   result>>

\* lines 257-284: ses.send_email
SendEmail ==
    /\ pc = "email"
    /\ emailsSent' = emailsSent + 1
    /\ pc' = "unlink"
    /\ completed' = Append(completed, "notify")
    /\ UNCHANGED <<profile, now, today, yesterday, start_time, end_time, returned,
                   items, temp, ws, uploaded, summary, started, error, result>>

SendEmailFails ==
    /\ pc = "email"
    /\ Raise("ClientError")
    /\ UNCHANGED <<profile, now, today, yesterday, start_time, end_time, returned,
                   items, temp, ws, uploaded, summary, emailsSent, started,
                   completed, result>>

\* line 287: os.unlink(temp_path)
Unlink ==
    /\ pc = "unlink"
    /\ temp' = "removed"
    /\ pc' = "return"
    /\ UNCHANGED <<profile, now, today, yesterday, start_time, end_time, returned,
                   items, ws, uploaded, summary, emailsSent, started, completed,
                   error, result>>

UnlinkFails ==
    /\ pc = "unlink"
    /\ Raise("OSError")
    /\ UNCHANGED <<profile, now, today, yesterday, start_time, end_time, returned,
                   items, temp, ws, uploaded, summary, emailsSent, started,
                   completed, result>>

\* lines 289-297
Return ==
    /\ pc = "return"
    /\ result' = "SUCCESS"
    /\ pc' = "done"
    /\ UNCHANGED <<profile, now, today, yesterday, start_time, end_time, returned,
                   items, temp, ws, uploaded, summary, emailsSent, started,
                   completed, error>>

Next ==
    \/ Start
    \/ SnapshotResult \/ SnapshotQueryFails \/ SnapshotEnd
    \/ DeletedResult \/ DeletedQueryFails \/ DeletedEnd
    \/ Reconcile
    \/ CreateTempFile \/ CreateTempFileFails
    \/ Render
    \/ Save \/ SaveFails
    \/ Upload \/ UploadFails
    \/ Presign \/ PresignFails
    \/ SendEmail \/ SendEmailFails
    \/ Unlink \/ UnlinkFails
    \/ Return

\* the run over a catalog of up to MaxResults results
Spec == Init /\ [][Next]_vars

\* the run over a catalog of up to MaxResults results that need lookups
SpecLookups == InitLookups /\ [][Next]_vars

\* the run over a catalog of one result, of any shape
SpecRecord == InitRecord /\ [][Next]_vars

----------------------------------------------------------------------------
(* Vocabulary of the properties *)

Ended == pc \in {"done", "failed"}

\* the stage has run to completion
Completed(stage) == \E n \in DOMAIN completed : completed[n] = stage

\* the stage has begun
Started(stage) == \E n \in DOMAIN started : started[n] = stage

IsPrefix(s, t) == Len(s) <= Len(t) /\ \A n \in DOMAIN s : s[n] = t[n]

\* the report window: yesterday 00:00 <= t < today 00:00
InWindow(t) == start_time <= t /\ t < end_time

\* a yielded result that cannot be parsed: not JSON, a configuration payload
\* that is not JSON, or no timestamp
ParseFailure(y) ==
    \/ ~y.result.wellFormed
    \/ /\ Has(y.result.doc, "configuration")
       /\ ~y.result.doc.configuration.wellFormed
    \/ /\ y.source = "snapshot"
       /\ ~Has(y.result.doc, "configurationItemCaptureTime")
    \/ /\ y.source = "deleted"
       /\ ~Has(y.result.doc, "resourceDeletionTime")

ParseErrors == {"JSONDecodeError", "AttributeError"}

\* the results yielded so far that have their record in `items`
Recorded == {i \in DOMAIN returned : ~ParseFailure(returned[i]) /\ i <= Len(items)}

----------------------------------------------------------------------------
(* C1: in every run in which the temporary file has been created, the file  *)
(* has been removed by the time the run ends, in success or in failure.     *)
C1_TempFileRemovedAtEnd ==
    (Ended /\ temp # "none") => temp = "removed"

(* C2: a run that ends in success has sent exactly one email, a run that    *)
(* ends in failure, at whatever step, has sent none.                        *)
C2_EmailCountMatchesOutcome ==
    /\ (pc = "done" /\ result = "SUCCESS") => emailsSent = 1
    /\ pc = "failed" => emailsSent = 0

(* C3: a result that cannot be parsed does not abort the collection: a run  *)
(* that has met such a result never fails with that result's parse error.   *)
C3_ParseFailureDoesNotAbort ==
    (\E i \in DOMAIN returned : ParseFailure(returned[i]))
        => ~(pc = "failed" /\ error \in ParseErrors)


(* C4: a failed CloudTrail lookup or detail lookup never raises and never   *)
(* aborts the run: every result that parses has its record, with identity   *)
(* "Unknown" when the attribution failed or found no event and current      *)
(* state "Unknown" when the enrichment failed, and a run that fails during  *)
(* collection fails on the query or on a result that does not parse.        *)
AttributionFailed(y) == ~y.trail.ok \/ y.trail.Events = <<>>

EnrichmentFailed(y) ==
    /\ y.source = "snapshot"
    /\ y.result.doc.resourceType \in {EC2Instance, LambdaFunction}
    /\ \/ ~y.detail.ok
       \/ /\ Has(y.detail, "Reservations")
          /\ y.detail.Reservations # <<>>
          /\ y.detail.Reservations[1].Instances = <<>>

C4_LookupFailuresAreSwallowed ==
    /\ \A i \in DOMAIN returned :
          ~ParseFailure(returned[i]) =>
              /\ i <= Len(items)
              /\ items[i]["Resource ID"] = returned[i].result.doc.resourceId
              /\ AttributionFailed(returned[i]) => items[i]["IAM User"] = "Unknown"
              /\ EnrichmentFailed(returned[i]) => items[i]["Current State"] = "Unknown"
    /\ (pc = "failed" /\ ~Completed("deleted")) =>
          \/ error = "ClientError"
          \/ /\ error \in ParseErrors
             /\ returned # <<>>
             /\ ParseFailure(returned[Len(returned)])

\* a run that met both failures on its first result, went on to a second
\* result and returned SUCCESS
C4_Witness ==
    /\ pc = "done"
    /\ Len(returned) = 2
    /\ Len(items) = 2
    /\ ~returned[1].trail.ok
    /\ EnrichmentFailed(returned[1])
    /\ items[1]["IAM User"] = "Unknown"
    /\ items[1]["Current State"] = "Unknown"
    /\ returned[2].trail.ok
    /\ items[2]["IAM User"] = "alice"

(* C5: a snapshot record is Created if its creationTime is present and      *)
(* falls in the report window, else Modified if its captureTime does, else  *)
(* Existing; a creationTime in the window gives Created whatever the        *)
(* captureTime, and no creationTime never gives Created.                    *)
ClaimedChangeType(doc) ==
    IF Has(doc, "resourceCreationTime") /\ InWindow(doc.resourceCreationTime)
    THEN "Created"
    ELSE IF InWindow(doc.configurationItemCaptureTime)
         THEN "Modified"
         ELSE "Existing"

C5_Classification ==
    \A i \in Recorded :
        returned[i].source = "snapshot" =>
            LET doc == returned[i].result.doc
            IN  /\ items[i]["Change Type"] = ClaimedChangeType(doc)
                /\ ~Has(doc, "resourceCreationTime") => items[i]["Change Type"] # "Created"

\* a record created in the window and captured outside it
C5_Witness ==
    \E i \in Recorded :
        /\ returned[i].source = "snapshot"
        /\ Has(returned[i].result.doc, "resourceCreationTime")
        /\ InWindow(returned[i].result.doc.resourceCreationTime)
        /\ ~InWindow(returned[i].result.doc.configurationItemCaptureTime)
        /\ items[i]["Change Type"] = "Created"


(* C6: when collection completes, the final sequence is the snapshot        *)
(* records in query order, then the deletion records in query order, with   *)
(* no deduplication: its length is snapshot count + deletion count; only    *)
(* when both are zero is it the one sentinel record, which never stands     *)
(* beside a real record.                                                    *)
IsSentinel(item) == item["Change Type"] = "N/A"

C6_FinalSequence ==
    Completed("reconcile") =>
        IF returned = <<>>
        THEN Len(items) = 1 /\ IsSentinel(items[1])
        ELSE /\ Len(items) = Len(returned)
             /\ \A i \in DOMAIN returned :
                   /\ items[i]["Resource ID"] = returned[i].result.doc.resourceId
                   /\ ~IsSentinel(items[i])
                   /\ (items[i]["Change Type"] = "Deleted") = (returned[i].source = "deleted")
                   /\ items[i]["Last Modified"] =
                         IF returned[i].source = "deleted"
                         THEN Strftime(returned[i].result.doc.resourceDeletionTime)
                         ELSE Strftime(returned[i].result.doc.configurationItemCaptureTime)
             /\ \A i, j \in DOMAIN returned :
                   (returned[i].source = "snapshot" /\ returned[j].source = "deleted") => i < j

\* a finished run in which one resource id came back from both queries
C6_Witness ==
    /\ pc = "done"
    /\ Len(returned) = 2
    /\ returned[1].source = "snapshot"
    /\ returned[2].source = "deleted"
    /\ returned[1].result.doc.resourceId = returned[2].result.doc.resourceId
    /\ Len(items) = 2

(* C7 as stated: with both queries empty, every one of the sentinel's ten   *)
(* fields is "N/A" and the summary is {N/A: 1}.                             *)
SummaryComputed == pc \in {"email", "unlink", "return", "done"}

C8_StageOrder ==
    /\ IsPrefix(started, Stages)
    /\ IsPrefix(completed, started)
    /\ Len(started) <= Len(completed) + 1
    /\ uploaded <= 1
    /\ emailsSent <= 1
    /\ emailsSent > 0 => uploaded = 1
    /\ (uploaded > 0 \/ Started("publish")) =>
          (Completed("snapshot") /\ Completed("deleted"))
    /\ (error # "none") = (pc = "failed")
    /\ pc = "failed" => result = "none"
    /\ (pc = "failed" /\ completed # Stages) => Len(completed) < Len(started)
    /\ pc = "done" => completed = Stages

\* a run whose upload failed: five stages begun, four completed, no email
C8_Witness ==
    /\ pc = "failed"
    /\ error = "S3UploadFailedError"
    /\ Len(started) = Len(completed) + 1
    /\ started[Len(started)] = "publish"
    /\ emailsSent = 0

(* C9: the worksheet has one row more than the final sequence, the header   *)
(* first, and every cell of data row i carries the one fill its record's    *)
(* changeType gives: Created green, Modified yellow, Deleted red, any other *)
(* value blue.                                                              *)
ClaimedFill(change_type) ==
    CASE change_type = "Created" -> "green"
      [] change_type = "Modified" -> "yellow"
      [] change_type = "Deleted" -> "red"
      [] OTHER -> "blue"

C9_RowsAndFills ==
    ws # <<>> =>
        /\ Len(ws) = Len(items) + 1
        /\ ws[1].cells = Columns
        /\ \A i \in DOMAIN items :
              /\ Len(ws[i + 1].fills) = Len(Columns)
              /\ \A j \in DOMAIN Columns :
                    ws[i + 1].fills[j] = ClaimedFill(items[i]["Change Type"])

\* a worksheet with a green row and a red row
C9_Witness ==
    /\ Len(ws) = Len(items) + 1
    /\ \E i, k \in DOMAIN items :
          /\ items[i]["Change Type"] = "Created"
          /\ ws[i + 1].fills[1] = "green"
          /\ items[k]["Change Type"] = "Deleted"
          /\ ws[k + 1].fills[1] = "red"

(* C10: every deletion record comes from a result whose deletion time t     *)
(* lies in the half-open window yesterday 00:00 <= t < today 00:00, the     *)
(* day the snapshot classification uses; a deletion at exactly today 00:00  *)
(* is not reported.                                                         *)
C10_DeletionsInsideWindow ==
    \A i \in Recorded :
        returned[i].source = "deleted" =>
            /\ InWindow(returned[i].result.doc.resourceDeletionTime)
            /\ items[i]["Last Modified"].date = yesterday

====
